---- MODULE Spec2Model ----
(***************************************************************************)
(* A model of tms4_data_reader.py: the TMSDataReader class that reads the  *)
(* data files of TOMST TMS-4 loggers from one directory.                   *)
(*                                                                         *)
(* A file's text is a sequence of lines and a line is the sequence of its  *)
(* ';'-separated fields, each field a piece of raw text.  A file name is   *)
(* data_<part>_<date>_<n>.csv: `part' is the text the '*' of the glob      *)
(* pattern matched (a sequence of characters) and `serial' stands for the  *)
(* date and number that make the names of one directory distinct.          *)
(* Times of day are minutes, temperatures tenths of a degree, file         *)
(* modification times milliseconds.                                        *)
(***************************************************************************)
EXTENDS Integers, Sequences, FiniteSets, TLC

VARIABLES
    dir_exists,  \* whether data_dir exists on disk
    dir,         \* the files data_dir.glob(DATA_FILE_PATTERN) yields, in the order it yields them
    pc,          \* "new", "idle", "reading", "concat", "returned", "raised"
    call,        \* the method last called on the reader
    arg,         \* the argument of check_missing
    i,           \* read(): how many files the dict comprehension has consumed
    frames,      \* read(): the dict being built, a sequence of [key, value] in insertion order
    log,         \* the records handed to logger.warning, in order
    result,      \* the value the call returned: the count, the ids or the dataset
    exc          \* the exception the call raised, "" when none

vars == <<dir_exists, dir, pc, call, arg, i, frames, log, result, exc>>

----------------------------------------------------------------------------
(* Bounds of the model *)

MaxFiles == 3
MaxLines == 3

----------------------------------------------------------------------------
(* Module constants *)

EMPTY_FILE_STRING == "File is empty"

DATA_FILE_SCHEMA ==
    << [name |-> "measurement_id",  dtype |-> "uint64"],
       [name |-> "timestamp",       dtype |-> "str"],
       [name |-> "time zone",       dtype |-> "int8"],
       [name |-> "T1",              dtype |-> "float16"],
       [name |-> "T2",              dtype |-> "float16"],
       [name |-> "T3",              dtype |-> "float16"],
       [name |-> "soilmoist_count", dtype |-> "uint16"],
       [name |-> "shake",           dtype |-> "uint8"],
       [name |-> "errFlag",         dtype |-> "uint8"] >>

\* A value that may be None: no element, or the one value.
None == <<>>
Some(v) == <<v>>

----------------------------------------------------------------------------
(* Raw text and its decoding *)

Digits == ("0" :> 0) @@ ("1" :> 1) @@ ("2" :> 2) @@ ("3" :> 3)

\* The texts read_csv decodes as an integer of the column's dtype.
IntText == ("0" :> 0) @@ ("1" :> 1) @@ ("2" :> 2) @@ ("100" :> 100)

\* The texts read_csv decodes as a float with decimal=".": tenths of a degree.
FloatText == ("5.1" :> 51) @@ ("5.2" :> 52) @@ ("5.3" :> 53) @@ ("6.0" :> 60)

\* str.replace(",", "."): the texts of the model that hold a comma.
CommaText == ("5,1" :> "5.1") @@ ("6,0" :> "6.0")

\* The timestamp texts and the format each is written in: "iso" is a format
\* to_datetime infers from the text, "lolly" is %Y/%m/%d %H.%M, which it does
\* not infer.  Both are read as UTC; the value is minutes after midnight.
TimeText ==
    ("2023-01-01T00:05:00" :> [format |-> "iso",   instant |-> 5]) @@
    ("2023-01-01T00:10:00" :> [format |-> "iso",   instant |-> 10]) @@
    ("2023/01/01 00.05"    :> [format |-> "lolly", instant |-> 5]) @@
    ("2023/01/01 00.10"    :> [format |-> "lolly", instant |-> 10])

ReplaceComma(s) == IF s \in DOMAIN CommaText THEN CommaText[s] ELSE s

----------------------------------------------------------------------------
(* _get_logger_id *)

\* The longest run of digits at the start of s: what (\d+) matches after data_.
RECURSIVE DigitRun(_)
DigitRun(s) ==
    IF s = <<>> \/ Head(s) \notin DOMAIN Digits
    THEN <<>>
    ELSE <<Head(s)>> \o DigitRun(Tail(s))

\* The number a run of digits writes.
RECURSIVE DigitsValue(_)
DigitsValue(ds) ==
    IF ds = <<>>
    THEN 0
    ELSE 10 * DigitsValue(SubSeq(ds, 1, Len(ds) - 1)) + Digits[ds[Len(ds)]]

\* re.match(r"^data_(\d+)", stem) is None when no digit follows data_, and
\* None.group(1) raises AttributeError.
_get_logger_id(filepath) ==
    LET run == DigitRun(filepath.part)
    IN  IF run = <<>>
        THEN [raised |-> "AttributeError", value |-> 0]
        ELSE [raised |-> "",               value |-> DigitsValue(run)]

----------------------------------------------------------------------------
(* _read_file *)

NaN == "NaN"

ColumnNames == {DATA_FILE_SCHEMA[c].name : c \in DOMAIN DATA_FILE_SCHEMA}
ColumnOf(name) == CHOOSE c \in DOMAIN DATA_FILE_SCHEMA : DATA_FILE_SCHEMA[c].name = name
IsIntegerDtype(dtype) == dtype \in {"uint64", "int8", "uint16", "uint8"}

\* fp.read().replace(",", "."): every field of every line.
ReplaceAll(text) ==
    [l \in DOMAIN text |-> [f \in DOMAIN text[l] |-> ReplaceComma(text[l][f])]]

\* What read_csv makes of column c of a line: a line with fewer fields than
\* columns is padded with NaN, which an integer column cannot hold.
Cell(line, c) ==
    LET dtype == DATA_FILE_SCHEMA[c].dtype
        Value(v) == [ok |-> TRUE, value |-> v]
        Fails    == [ok |-> FALSE, value |-> NaN]
    IN  IF c > Len(line)
        THEN IF IsIntegerDtype(dtype) THEN Fails ELSE Value(NaN)
        ELSE IF IsIntegerDtype(dtype)
             THEN IF line[c] \in DOMAIN IntText THEN Value(IntText[line[c]]) ELSE Fails
        ELSE IF dtype = "float16"
             THEN IF line[c] \in DOMAIN FloatText THEN Value(FloatText[line[c]]) ELSE Fails
        ELSE Value(line[c])

Decodes(line) == \A c \in DOMAIN DATA_FILE_SCHEMA : Cell(line, c).ok

DecodeLine(line) == [name \in ColumnNames |-> Cell(line, ColumnOf(name)).value]

\* read_csv as it would be if a line with a value that does not decode were
\* left out and the other lines kept.
RECURSIVE DecodableLines(_)
DecodableLines(data) ==
    IF data = <<>> THEN <<>>
    ELSE IF Decodes(Head(data)) THEN <<DecodeLine(Head(data))>> \o DecodableLines(Tail(data))
    ELSE DecodableLines(Tail(data))

read_csv_skipping(data) ==
    IF data = <<>> \/ DecodableLines(data) = <<>>
    THEN [raised |-> "EmptyDataError", df |-> <<>>]
    ELSE [raised |-> "", df |-> DecodableLines(data)]

\* pd.read_csv(StringIO(data), sep=";", header=None, names=..., dtype=...):
\* EmptyDataError (a ValueError) on no text, ValueError when a value does not
\* decode as its column's dtype, else one row per line.
read_csv(data) ==
    IF data = <<>>
    THEN [raised |-> "EmptyDataError", df |-> <<>>]
    ELSE IF \E l \in DOMAIN data : ~Decodes(data[l])
    THEN [raised |-> "ValueError", df |-> <<>>]
    ELSE [raised |-> "", df |-> [l \in DOMAIN data |-> DecodeLine(data[l])]]

\* FirstLineIsSentinel as it would be if a text without a first line counted too.
FirstLineIsSentinelOrAbsent(text) == text = <<>> \/ text[1] = <<EMPTY_FILE_STRING>>

\* fp.seek(0); fp.readline().rstrip("\n") == EMPTY_FILE_STRING, on the text as
\* stored: the first line is the sentinel when it is that one field.
FirstLineIsSentinel(text) == text # <<>> /\ text[1] = <<EMPTY_FILE_STRING>>

\* The warning the except branch logs.
ReadFailureWarning(filepath) ==
    IF FirstLineIsSentinel(filepath.content)
    THEN [msg |-> "Empty file", file |-> filepath.serial]
    ELSE [msg |-> "Failed reading file", file |-> filepath.serial]

FormatOf(s) == IF s \in DOMAIN TimeText THEN TimeText[s].format ELSE "none"

\* pd.to_datetime(col, utc=True, yearfirst=True) with "Could not infer format"
\* made an error: the format is inferred from the first text; when none is
\* inferred the warning is raised as UserWarning, and a later text that is not
\* in the inferred format raises ValueError.
to_datetime_infer(col) ==
    IF FormatOf(col[1]) # "iso"
    THEN [raised |-> "UserWarning", values |-> <<>>]
    ELSE IF \E k \in DOMAIN col : FormatOf(col[k]) # "iso"
    THEN [raised |-> "ValueError", values |-> <<>>]
    ELSE [raised |-> "", values |-> [k \in DOMAIN col |-> TimeText[col[k]].instant]]

\* pd.to_datetime(col, utc=True, format="%Y/%m/%d %H.%M").
to_datetime_lolly(col) ==
    IF \E k \in DOMAIN col : FormatOf(col[k]) # "lolly"
    THEN [raised |-> "ValueError", values |-> <<>>]
    ELSE [raised |-> "", values |-> [k \in DOMAIN col |-> TimeText[col[k]].instant]]

\* The try/except of lines 102-115: the fallback runs on ParserError or
\* UserWarning only, and nothing catches what the fallback raises.
ParseTimestamps(col) ==
    LET first == to_datetime_infer(col)
    IN  IF first.raised \in {"ParserError", "UserWarning"}
        THEN to_datetime_lolly(col)
        ELSE first

\* Timestamp.round("s") of a time in milliseconds: to the nearest second, a
\* half to the even one.
RoundSeconds(ms) ==
    LET q == ms \div 1000
        r == ms % 1000
    IN  IF r < 500 THEN q
        ELSE IF r > 500 THEN q + 1
        ELSE IF q % 2 = 0 THEN q ELSE q + 1

\* Columns as it would be if the index were compared with the columns.
ColumnsAndIndex(row) == row

\* The columns of a row: measurement_id is the index, not a column.
Columns(row) == [name \in (DOMAIN row) \ {"measurement_id"} |-> row[name]]

\* Duplicated as it would be with keep="first".
DuplicatedKeepFirst(df, k) == \E j \in 1..(k - 1) : Columns(df[j]) = Columns(df[k])

\* DataFrame.duplicated(keep="last"): a row is a duplicate when a later row
\* has the same columns.
Duplicated(df, k) == \E j \in (k + 1)..Len(df) : Columns(df[j]) = Columns(df[k])

\* df[~mask]: the rows from the k-th on that are not duplicates, in order.
RECURSIVE NotDuplicatedFrom(_, _)
NotDuplicatedFrom(df, k) ==
    IF k > Len(df) THEN <<>>
    ELSE IF Duplicated(df, k) THEN NotDuplicatedFrom(df, k + 1)
    ELSE <<df[k]>> \o NotDuplicatedFrom(df, k + 1)

\* df.drop_duplicates(keep="last")
drop_duplicates(df) == NotDuplicatedFrom(df, 1)

\* The timestamp column replaced by the parsed times, and the read_time column
\* added: the file's modification time rounded to seconds.
WithTimes(df, times, mtime) ==
    [l \in DOMAIN df |-> [df[l] EXCEPT !["timestamp"] = times[l]]
                         @@ ("read_time" :> RoundSeconds(mtime))]

\* _read_file: the table, None, or the exception that leaves it, and the
\* warnings it logs.
_read_file(filepath) ==
    LET data   == ReplaceAll(filepath.content)
        parsed == read_csv(data)
    IN  IF parsed.raised # ""
        THEN [raised |-> "", df |-> None, warnings |-> <<ReadFailureWarning(filepath)>>]
        ELSE
        LET times == ParseTimestamps([l \in DOMAIN parsed.df |-> parsed.df[l]["timestamp"]])
        IN  IF times.raised # ""
            THEN [raised |-> times.raised, df |-> None, warnings |-> <<>>]
            ELSE [raised |-> "",
                  df |-> Some(drop_duplicates(WithTimes(parsed.df, times.values, filepath.mtime))),
                  warnings |-> <<>>]

----------------------------------------------------------------------------
(* loggers, check_missing, read *)

\* set(map(_get_logger_id, glob)): the first name without a logger id raises.
loggers(files) ==
    IF \E k \in DOMAIN files : _get_logger_id(files[k]).raised # ""
    THEN [raised |-> "AttributeError", value |-> {}]
    ELSE [raised |-> "", value |-> {_get_logger_id(files[k]).value : k \in DOMAIN files}]

\* check_missing as it would be if the ids present were those of the files
\* that parse.
check_missing_parsed(files, all_loggers) ==
    IF loggers(files).raised # ""
    THEN [raised |-> loggers(files).raised, value |-> {}]
    ELSE [raised |-> "",
          value |-> all_loggers \ {_get_logger_id(files[k]).value :
                                     k \in {j \in DOMAIN files : _read_file(files[j]).df # None}}]

\* set(all_loggers).difference(self.loggers)
check_missing(files, all_loggers) ==
    LET present == loggers(files)
    IN  IF present.raised # ""
        THEN [raised |-> present.raised, value |-> {}]
        ELSE [raised |-> "", value |-> all_loggers \ present.value]

\* d[key] = value of a Python dict: a key already there keeps its place and
\* takes the new value, a new key goes last.
DictSet(d, key, value) ==
    IF \E k \in DOMAIN d : d[k].key = key
    THEN [k \in DOMAIN d |-> IF d[k].key = key THEN [key |-> key, value |-> value] ELSE d[k]]
    ELSE Append(d, [key |-> key, value |-> value])

\* The rows of one dict entry under the logger_id level of the index.
Keyed(entry) ==
    LET df == entry.value[1]
    IN  [k \in DOMAIN df |-> df[k] @@ ("logger_id" :> entry.key)]

RECURSIVE ConcatRows(_)
ConcatRows(d) ==
    IF d = <<>> THEN <<>>
    ELSE IF Head(d).value = None THEN ConcatRows(Tail(d))
    ELSE Keyed(Head(d)) \o ConcatRows(Tail(d))

\* pd.concat(dict, names=["logger_id"], axis=0): ValueError on no objects and
\* on objects that are all None; a None among others is dropped.
concat(d) ==
    IF d = <<>> \/ \A k \in DOMAIN d : d[k].value = None
    THEN [raised |-> "ValueError", value |-> <<>>]
    ELSE [raised |-> "", value |-> ConcatRows(d)]

\* One turn of the dict comprehension of read(): the key, then the value, then
\* the entry; an exception of either leaves read().
DictStep(d, filepath) ==
    LET key   == _get_logger_id(filepath)
        value == _read_file(filepath)
    IN  IF key.raised # ""
        THEN [raised |-> key.raised, value |-> d, warnings |-> <<>>]
        ELSE IF value.raised # ""
        THEN [raised |-> value.raised, value |-> d, warnings |-> <<>>]
        ELSE [raised |-> "", value |-> DictSet(d, key.value, value.df),
              warnings |-> value.warnings]

RECURSIVE Comprehension(_, _, _)
Comprehension(files, k, d) ==
    IF k > Len(files) THEN [raised |-> "", value |-> d]
    ELSE LET step == DictStep(d, files[k])
         IN  IF step.raised # ""
             THEN [raised |-> step.raised, value |-> d]
             ELSE Comprehension(files, k + 1, step.value)

\* read() as a whole.
read(files) ==
    LET d == Comprehension(files, 1, <<>>)
    IN  IF d.raised # "" THEN [raised |-> d.raised, value |-> <<>>] ELSE concat(d.value)

----------------------------------------------------------------------------
(* The directories of the model *)

Line(mid, ts, t1) == <<mid, ts, "0", t1, "5.2", "5.3", "100", "0", "0">>

SampleLines ==
    {Line(m, "2023-01-01T00:05:00", t) : m \in {"1", "2"}, t \in {"5.1", "5,1"}}
    \cup { Line("1", "2023-01-01T00:10:00", "5.1"),    \* another time
           Line("1", "2023-01-01T00:05:00", "6.0"),    \* another temperature
           Line("1", "2023/01/01 00.05", "5.1"),       \* the Lolly format
           Line("2", "2023/01/01 00.05", "6,0"),
           Line("1", "yesterday", "5.1"),              \* no known timestamp format
           Line("1", "2023-01-01T00:05:00", "abc"),    \* a value that does not decode
           <<"2", "2023-01-01T00:05:00", "0", "5.1">>, \* too few delimiters
           <<EMPTY_FILE_STRING>> }

Texts(lines, n) == UNION {[1..k -> lines] : k \in 0..n}

MTimes == {1499, 2500}

\* One file, with any text of up to MaxLines sample lines.
OneFileDirs ==
    { << [part |-> <<"1">>, serial |-> 1, content |-> c, mtime |-> t] >> :
        c \in Texts(SampleLines, MaxLines), t \in MTimes }

SampleTexts ==
    { << Line("1", "2023-01-01T00:05:00", "5.1"), Line("2", "2023-01-01T00:10:00", "6.0") >>,
      << Line("1", "2023/01/01 00.05", "6,0") >>,
      << Line("1", "2023-01-01T00:05:00", "5.1"), <<"2", "2023-01-01T00:10:00", "0", "6.0">> >>,
      << Line("1", "yesterday", "5.1") >> }

\* The text between data_ and the date: two logger ids, and a text whose digit
\* does not follow data_ at once.
SampleParts == { <<"1">>, <<"2">>, <<"x", "1">> }

SampleFiles == [part : SampleParts, content : SampleTexts]

\* Up to MaxFiles files in any order of discovery.
ManyFileDirs ==
    { [k \in DOMAIN fs |-> [part |-> fs[k].part, serial |-> k,
                            content |-> fs[k].content, mtime |-> 1499]] :
        fs \in UNION {[1..n -> SampleFiles] : n \in 0..MaxFiles} }

----------------------------------------------------------------------------
(* The reader *)

\* What result holds before a call returns.
NoResult == [count |-> 0, ids |-> {}, dataset |-> <<>>]

InitOver(dirs) ==
    /\ dir_exists \in BOOLEAN
    /\ dir \in (IF dir_exists THEN dirs ELSE {<<>>})
    /\ pc = "new"
    /\ call = ""
    /\ arg = {}
    /\ i = 0
    /\ frames = <<>>
    /\ log = <<>>
    /\ result = NoResult
    /\ exc = ""

Init == InitOver(ManyFileDirs)

InitFile == InitOver(OneFileDirs)

\* TMSDataReader(data_dir)
Construct ==
    /\ pc = "new"
    /\ call' = "__init__"
    /\ IF dir_exists
       THEN pc' = "idle" /\ exc' = ""
       ELSE pc' = "raised" /\ exc' = "FileExistsError"
    /\ UNCHANGED <<dir_exists, dir, arg, i, frames, log, result>>

\* reader.filecount
FileCount ==
    /\ pc = "idle"
    /\ call' = "filecount"
    /\ pc' = "returned"
    /\ result' = [NoResult EXCEPT !.count = Len(dir)]
    /\ UNCHANGED <<dir_exists, dir, arg, i, frames, log, exc>>

\* The call ends: it raises, or returns a value of the given kind.
Finish(r, kind) ==
    IF r.raised # ""
    THEN pc' = "raised" /\ exc' = r.raised /\ result' = NoResult
    ELSE pc' = "returned" /\ exc' = "" /\ result' = [NoResult EXCEPT ![kind] = r.value]

\* reader.loggers
Loggers ==
    /\ pc = "idle"
    /\ call' = "loggers"
    /\ Finish(loggers(dir), "ids")
    /\ UNCHANGED <<dir_exists, dir, arg, i, frames, log>>

ExpectedIds == {1, 2, 3}

\* reader.check_missing(all_loggers)
CheckMissing(all_loggers) ==
    /\ pc = "idle"
    /\ call' = "check_missing"
    /\ arg' = all_loggers
    /\ Finish(check_missing(dir, all_loggers), "ids")
    /\ UNCHANGED <<dir_exists, dir, i, frames, log>>

\* reader.read(): the dict comprehension starts
ReadStart ==
    /\ pc = "idle"
    /\ call' = "read"
    /\ pc' = "reading"
    /\ i' = 0
    /\ frames' = <<>>
    /\ UNCHANGED <<dir_exists, dir, arg, log, result, exc>>

\* One file of the dict comprehension.
ReadNext ==
    /\ pc = "reading"
    /\ i < Len(dir)
    /\ LET step == DictStep(frames, dir[i + 1])
       IN  IF step.raised # ""
           THEN /\ pc' = "raised" /\ exc' = step.raised
                /\ UNCHANGED <<i, frames, log>>
           ELSE /\ pc' = "reading" /\ exc' = ""
                /\ i' = i + 1
                /\ frames' = step.value
                /\ log' = log \o step.warnings
    /\ UNCHANGED <<dir_exists, dir, call, arg, result>>

\* The dict is complete: pd.concat, and read() returns what it returns.
ReadConcat ==
    /\ pc = "reading"
    /\ i = Len(dir)
    /\ Finish(concat(frames), "dataset")
    /\ UNCHANGED <<dir_exists, dir, call, arg, i, frames, log>>

Next ==
    \/ Construct
    \/ FileCount
    \/ Loggers
    \/ \E all_loggers \in SUBSET ExpectedIds : CheckMissing(all_loggers)
    \/ ReadStart
    \/ ReadNext
    \/ ReadConcat

Spec == Init /\ [][Next]_vars

SpecFile == InitFile /\ [][Next]_vars

----------------------------------------------------------------------------
(* What the claims speak of *)

ReadEnded == call = "read" /\ pc \in {"returned", "raised"}
ReadReturned == call = "read" /\ pc = "returned"


\* The file name carries a logger id: a digit follows data_.
NameHasId(filepath) == DigitRun(filepath.part) # <<>>
IdOf(filepath) == DigitsValue(DigitRun(filepath.part))

\* The text has a line with too few delimiters (and is not the sentinel line).
TooFewDelimiters(line) == Len(line) < Len(DATA_FILE_SCHEMA) /\ line # <<EMPTY_FILE_STRING>>
IsMalformed(filepath) ==
    \E l \in DOMAIN filepath.content : TooFewDelimiters(filepath.content[l])

\* The file parses: _read_file returns a table.
Parses(filepath) ==
    LET r == _read_file(filepath) IN r.raised = "" /\ r.df # None
TableOf(filepath) == _read_file(filepath).df[1]

\* Every row of the file's table is in the dataset under the file's logger id.
RowsIn(filepath, dataset) ==
    \A a \in DOMAIN TableOf(filepath) :
        \E b \in DOMAIN dataset :
            dataset[b] = TableOf(filepath)[a] @@ ("logger_id" :> IdOf(filepath))

----------------------------------------------------------------------------
(* The claims *)

\* C1: whatever the files of an existing directory hold, read() returns a
\* Dataset: no file-level failure, no directory where every file fails and no
\* directory without files makes read() raise.
C1_ReadNeverRaises == call = "read" => pc # "raised"

\* C2: when several files of one logger id each parse, the Dataset read()
\* returns holds the rows of all of them under that logger id.
C2_AllFilesOfALogger ==
    ReadReturned =>
        \A k \in DOMAIN dir :
            (/\ Parses(dir[k])
             /\ \E j \in DOMAIN dir : j # k /\ Parses(dir[j]) /\ IdOf(dir[j]) = IdOf(dir[k]))
            => RowsIn(dir[k], result.dataset)

\* C3: with a structurally malformed file in the directory, read() leaves out
\* that file's rows and still returns the rows of every other file that
\* parses, a file of the same logger id included, in any order of discovery.
\* (Directories whose files all have a logger id and either parse or are
\* malformed.)
C3_MalformedFileAlone ==
    (/\ ReadEnded
     /\ \A k \in DOMAIN dir : NameHasId(dir[k]) /\ (Parses(dir[k]) \/ IsMalformed(dir[k])))
    => \A m \in DOMAIN dir : \A k \in DOMAIN dir :
          (IsMalformed(dir[m]) /\ Parses(dir[k]))
          => (pc = "returned" /\ RowsIn(dir[k], result.dataset))

\* C10: a file whose name has no digit after data_ is skipped: filecount does
\* not count it, and neither loggers, check_missing nor read() raises for it.
C10_MalformedNameSkipped ==
    /\ (call = "filecount" /\ pc = "returned")
       => result.count = Cardinality({k \in DOMAIN dir : NameHasId(dir[k])})
    /\ (call \in {"loggers", "check_missing", "read"} /\ pc = "raised")
       => exc # "AttributeError"

\* The expected ids that have no row in the dataset.
NoRowsOf(dataset, ids) == {e \in ids : \A b \in DOMAIN dataset : dataset[b]["logger_id"] # e}

----------------------------------------------------------------------------
(* The claims about one file: a directory of one file, read() called *)

\* _read_file has returned for the file.
FileRead == call = "read" /\ i = 1
TheFile == dir[1]
TheTable == frames[1].value

\* The rows the lines of the file decode to, before duplicates are dropped.
DecodedRows ==
    LET df == read_csv(ReplaceAll(TheFile.content)).df
    IN  WithTimes(df, ParseTimestamps([l \in DOMAIN df |-> df[l]["timestamp"]]).values,
                  TheFile.mtime)

\* Timestamp and data fields: everything of a row but its sequence number.
Fields(row) == [name \in (DOMAIN row) \ {"measurement_id", "logger_id"} |-> row[name]]

LastOf(rows, fields) ==
    CHOOSE k \in DOMAIN rows :
        /\ Fields(rows[k]) = fields
        /\ \A j \in DOMAIN rows : Fields(rows[j]) = fields => j <= k

\* C5 as claimed: no two rows of a Dataset read() returns share logger id and
\* measurement sequence number.
C5_UniqueSequenceNumbers ==
    ReadReturned =>
        \A a \in DOMAIN result.dataset : \A b \in DOMAIN result.dataset :
            (/\ result.dataset[a]["logger_id"] = result.dataset[b]["logger_id"]
             /\ result.dataset[a]["measurement_id"] = result.dataset[b]["measurement_id"])
            => a = b

\* C5 as amended: no two rows of a Dataset read() returns share logger id,
\* timestamp and every data field; rows of one file that share the sequence
\* number and differ in a field are all in it.
C5_UniqueFields ==
    ReadReturned =>
        LET rows == DecodedRows
        IN  /\ \A a \in DOMAIN result.dataset : \A b \in DOMAIN result.dataset :
                  (/\ result.dataset[a]["logger_id"] = result.dataset[b]["logger_id"]
                   /\ Fields(result.dataset[a]) = Fields(result.dataset[b]))
                  => a = b
            /\ \A k \in DOMAIN rows : \A j \in DOMAIN rows :
                  (/\ rows[k]["measurement_id"] = rows[j]["measurement_id"]
                   /\ Fields(rows[k]) # Fields(rows[j]))
                  => \E b \in DOMAIN result.dataset : Fields(result.dataset[b]) = Fields(rows[k])

\* A returned Dataset with two rows of one sequence number, from a file in
\* which a duplicated row was dropped.
C5_Witness ==
    /\ ReadReturned
    /\ Len(result.dataset) < Len(DecodedRows)
    /\ \E a \in DOMAIN result.dataset : \E b \in DOMAIN result.dataset :
          a # b /\ result.dataset[a]["measurement_id"] = result.dataset[b]["measurement_id"]

\* C6: of the lines of a file that agree in timestamp and every data field
\* exactly one row survives, the last of them in file order (its sequence
\* number is that line's); rows that differ in timestamp or a field all
\* survive; the survivors keep their file order.
C6_KeepLastOfEqualRows ==
    (FileRead /\ TheTable # None) =>
        LET rows  == DecodedRows
            table == TheTable[1]
        IN  /\ \A k \in DOMAIN rows :
                  Cardinality({a \in DOMAIN table : Fields(table[a]) = Fields(rows[k])}) = 1
            /\ \A a \in DOMAIN table : table[a] = rows[LastOf(rows, Fields(table[a]))]
            /\ \A a \in DOMAIN table : \A b \in DOMAIN table :
                  a < b => LastOf(rows, Fields(table[a])) < LastOf(rows, Fields(table[b]))

\* Two lines with equal fields and different sequence numbers, and one row
\* less in the table than lines in the file.
C6_Witness ==
    /\ FileRead /\ TheTable # None
    /\ Len(TheTable[1]) < Len(DecodedRows)
    /\ \E k \in DOMAIN DecodedRows : \E j \in DOMAIN DecodedRows :
          /\ k < j
          /\ Fields(DecodedRows[k]) = Fields(DecodedRows[j])
          /\ DecodedRows[k]["measurement_id"] # DecodedRows[j]["measurement_id"]

\* The lines decode and no timestamp is in a known format.
NoKnownEncoding(filepath) ==
    /\ read_csv(ReplaceAll(filepath.content)).raised = ""
    /\ \A l \in DOMAIN filepath.content : FormatOf(filepath.content[l][2]) = "none"

\* C7: a file whose timestamps are in neither known format ends in a
\* file-level failure: no exception leaves _read_file.
C7_TimestampFailureIsCaught ==
    (call = "read" /\ dir # <<>> /\ NameHasId(TheFile) /\ NoKnownEncoding(TheFile))
    => ~(pc = "raised" /\ i = 0)

\* A line with all its fields and a number that does not decode even with its
\* comma replaced.
NumberText(c) == IF DATA_FILE_SCHEMA[c].dtype = "float16" THEN FloatText ELSE IntText
HasBadNumber(line) ==
    /\ Len(line) = Len(DATA_FILE_SCHEMA)
    /\ \E c \in DOMAIN line :
          /\ DATA_FILE_SCHEMA[c].dtype # "str"
          /\ ReplaceComma(line[c]) \notin DOMAIN NumberText(c)
WellFormed(text) == \A l \in DOMAIN text : Len(text[l]) = Len(DATA_FILE_SCHEMA)
GoodLine(line) ==
    /\ Len(line) = Len(DATA_FILE_SCHEMA)
    /\ ~HasBadNumber(line)
    /\ FormatOf(line[2]) = "iso"
BadNumberAmongGood(text) ==
    /\ WellFormed(text)
    /\ \E l \in DOMAIN text : HasBadNumber(text[l])
    /\ \E l \in DOMAIN text : GoodLine(text[l])
    /\ \A l \in DOMAIN text : HasBadNumber(text[l]) \/ GoodLine(text[l])

ZeroBytes(text) == text = <<>>
OnlySentinel(text) == text = << <<EMPTY_FILE_STRING>> >>

====
